---- MODULE Spec2Model ----
(***************************************************************************)
(* Graph colouring as a CSP (graph_csp.py): AC-3 propagation, backtracking *)
(* search with MRV / LCV ordering and an undo trail.  The recursion of     *)
(* backtrack is modelled by an explicit stack of frames, one per active    *)
(* call that has entered its value loop.                                   *)
(***************************************************************************)
EXTENDS Integers, Sequences, FiniteSets, TLC

MaxVar == 4     \* vertex identifiers are drawn from 1..MaxVar
MaxK   == 3     \* the colour budget k is drawn from -NegK..MaxK
NegK   == 1     \* how far below zero the colour budget is tried
MaxSize == 7    \* inputs have at most this many variables plus colours
MaxListed == 2  \* edge sets up to this size are listed in every order
MaxLines == 3   \* parse_input reads files of at most this many lines
ParseVar == 3   \* whose edge lines name vertices of 1..ParseVar
CompSize == 3   \* a connected component has at most this many vertices
None   == 0     \* Python's None where a variable identifier is expected

VARIABLES
    k,           \* colour budget
    variables,   \* the variable set handed to solve_graph_coloring
    adj,         \* adjacency: variable -> sorted list of neighbours
    iterOrder,   \* the order in which this run iterates a set of colours
    domains,     \* variable -> set of colours
    assignment,  \* partial mapping variable -> colour
    trail,       \* list of (variable, removed value)
    queue,       \* the deque of arcs of the running ac3
    stack,       \* frames of the active backtrack calls
    pc,          \* position in solve_graph_coloring
    outcome,     \* "pending", "failure" (None) or "solution"
    solution,    \* the mapping returned when outcome = "solution"
    ac3Start,    \* history: domains when the running ac3 was called
    lastRevise,  \* history: the last call of revise and what it removed
    failedBy,    \* history: why the trial being rolled back failed
    searchStart, \* history: domains when the top-level backtrack was called
    parse,       \* parse_input: the lines read, the position and what was built
    run,         \* number of the solve on this input (1 or 2)
    prev         \* outcome and mapping of the previous solve on this input

vars == <<k, variables, adj, iterOrder, domains, assignment, trail, queue,
          stack, pc, outcome, solution, ac3Start, lastRevise, failedBy,
          searchStart, parse, run, prev>>

input == <<k, variables, adj, parse>>

(***************************************************************************)
(* Lists, sorting and set iteration                                        *)
(***************************************************************************)
EmptyMap == [v \in {} |-> 0]

Range(s) == {s[i] : i \in 1..Len(s)}

MinOf(S) == CHOOSE x \in S : \A y \in S : x <= y

\* Python's sorted() on a set of integers: the i-th element is the one
\* with i - 1 smaller elements
sorted(S) ==
    [i \in 1..Cardinality(S) |->
        CHOOSE x \in S : Cardinality({y \in S : y < x}) = i - 1]

\* (a, b) < (c, d) as Python compares tuples
PairLess(p, q) == p[1] < q[1] \/ (p[1] = q[1] /\ p[2] < q[2])

\* list.sort() on a list of distinct pairs of integers
sortPairs(S) ==
    [i \in 1..Cardinality(S) |->
        CHOOSE p \in S : Cardinality({q \in S : PairLess(q, p)}) = i - 1]

RECURSIVE Perms(_)
\* every order in which the elements of S can be listed
Perms(S) == IF S = {} THEN {<<>>}
            ELSE UNION {{<<x>> \o p : p \in Perms(S \ {x})} : x \in S}

\* [x for x in s if x in S]
Filter(s, S) == LET in_S(x) == x \in S IN SelectSeq(s, in_S)

\* list(S) for a set S of colours: its elements in the order the set is
\* iterated in, which Python leaves open
list(S) == Filter(iterOrder, S)

(***************************************************************************)
(* parse_input: the adjacency built from the edge set                      *)
(***************************************************************************)
\* edges are kept as pairs (a, b) with a < b, as parse_input stores them
EdgesOver(V) == {e \in V \X V : e[1] < e[2]}

RECURSIVE appendAll(_, _)
\* adj[u].append(v); adj[v].append(u) for each edge of the list, in order
appendAll(a, es) ==
    IF es = <<>> THEN a
    ELSE LET u == Head(es)[1]
             v == Head(es)[2]
         IN appendAll([a EXCEPT ![u] = Append(@, v), ![v] = Append(@, u)], Tail(es))

\* the adjacency after every list is replaced by sorted(set(list));
\* adj.get(v, []) is the empty list for a variable without edges
parse_adj(V, es) ==
    LET raw == appendAll([v \in V |-> <<>>], es)
    IN [v \in V |-> sorted(Range(raw[v]))]

Reverse(s) == [i \in 1..Len(s) |-> s[Len(s) + 1 - i]]

\* orders in which "for (u, v) in edges" (line 47) may visit the edge set:
\* all of them for a small set, the ascending and the descending one otherwise
Listings(E) ==
    IF Cardinality(E) <= MaxListed THEN Perms(E)
    ELSE {sortPairs(E), Reverse(sortPairs(E))}

EdgesOf(a) == {e \in EdgesOver(DOMAIN a) : e[2] \in Range(a[e[1]])}

(***************************************************************************)
(* revise and ac3                                                          *)
(***************************************************************************)
\* range(k+1) in place of range(1, k+1)
initial_domain_from_zero(kk) == 0..kk

\* set(range(1, k+1))
initial_domain(kk) == 1..kk

\* line 70 testing len(domY) == 0 in place of len(domY) == 1
unsupported_len_zero(x, domY) == Cardinality(domY) = 0 /\ x \in domY

\* line 70 without the test len(domY) == 1
unsupported_any_len(x, domY) == x \in domY

\* line 70: x loses its support when Dom[Y] is the singleton {x}
unsupported(x, domY) == Cardinality(domY) = 1 /\ x \in domY

\* to_remove of revise(X, Y), lines 68-71: the values of listX = list(domX)
\* that line 70 selects, in the order of listX
revise(listX, domY) ==
    LET keep(x) == unsupported(x, domY) IN SelectSeq(listX, keep)

\* the domain rebuilt from the full range instead of shrunk in place
remove_all_from_range(doms, X, to_remove) ==
    IF to_remove = <<>> THEN doms
    ELSE [doms EXCEPT ![X] = initial_domain(k) \ Range(to_remove)]

\* domains[X].remove(val) for every val of to_remove
remove_all(doms, X, to_remove) == [doms EXCEPT ![X] = @ \ Range(to_remove)]

\* the removal that comes last is not recorded
trail_append_all_but_last(tr, X, vals) ==
    tr \o [i \in 1..(Len(vals) - 1) |-> <<X, vals[i]>>]

\* trail.append((X, val)) for every val of the list
trail_append(tr, X, vals) == tr \o [i \in 1..Len(vals) |-> <<X, vals[i]>>]

\* a revised variable wakes no arc
reenqueue_none(q, Xi, Xj) == q

\* queue.append((Xk, Xi)) for Xk in adj[Xi] if Xk != Xj
reenqueue(q, Xi, Xj) ==
    q \o [i \in 1..Len(Filter(adj[Xi], variables \ {Xj})) |->
            <<Filter(adj[Xi], variables \ {Xj})[i], Xi>>]

\* len(domains[x]) <= 1 in place of len(domains[x]) == 0
empty_found_le_one(doms) == \E x \in DOMAIN doms : Cardinality(doms[x]) <= 1

\* any(len(domains[x]) == 0 for x in domains)
empty_found(doms) == \E x \in DOMAIN doms : doms[x] = {}

(***************************************************************************)
(* select_unassigned_variable and order_domain_values                      *)
(***************************************************************************)
\* the candidates sorted by variable alone: (var, len(dom)) for (len(dom), var)
select_unassigned_variable_by_id(doms, asg) ==
    LET candidates == (DOMAIN doms) \ (DOMAIN asg)
    IN IF candidates = {} THEN None ELSE MinOf(candidates)

\* candidates.append((len(dom), var)); candidates.sort(); candidates[0][1]
select_unassigned_variable(doms, asg) ==
    LET candidates == {<<Cardinality(doms[v]), v>> : v \in (DOMAIN doms) \ (DOMAIN asg)}
    IN IF candidates = {} THEN None ELSE sortPairs(candidates)[1][2]

\* the values kept in iteration order and sorted by the count alone:
\* domain = list(domains[var]) and counts.sort(key=count)
order_domain_values_unsorted(var, listVar, doms, asg) ==
    LET eliminated(val) ==
            Cardinality({i \in 1..Len(adj[var]) :
                            /\ adj[var][i] \notin DOMAIN asg
                            /\ val \in doms[adj[var][i]]})
        counts == {<<eliminated(listVar[i]), i>> : i \in 1..Len(listVar)}
        ordered == sortPairs(counts)
    IN [i \in 1..Len(ordered) |-> listVar[ordered[i][2]]]

\* counts.sort(reverse=True): the most constraining value first
order_domain_values_descending(var, listVar, doms, asg) ==
    LET domain == sorted(Range(listVar))
        eliminated(val) ==
            Cardinality({i \in 1..Len(adj[var]) :
                            /\ adj[var][i] \notin DOMAIN asg
                            /\ val \in doms[adj[var][i]]})
        counts == {<<eliminated(domain[i]), domain[i]>> : i \in 1..Len(domain)}
        ordered == sortPairs(counts)
    IN [i \in 1..Len(ordered) |-> ordered[Len(ordered) + 1 - i][2]]

\* listVar is the order in which sorted(domains[var]) reads the set
order_domain_values(var, listVar, doms, asg) ==
    LET domain == sorted(Range(listVar))
        eliminated(val) ==
            Cardinality({i \in 1..Len(adj[var]) :
                            /\ adj[var][i] \notin DOMAIN asg
                            /\ val \in doms[adj[var][i]]})
        counts == {<<eliminated(domain[i]), domain[i]>> : i \in 1..Len(domain)}
        ordered == sortPairs(counts)
    IN [i \in 1..Len(ordered) |-> ordered[i][2]]

(***************************************************************************)
(* solve_graph_coloring: state after lines 165-175                         *)
(***************************************************************************)
RECURSIVE initial_queue(_, _)
\* for Xi in variables: for Xj in adj[Xi]: queue.append((Xi, Xj))
initial_queue(vs, a) ==
    IF vs = <<>> THEN <<>>
    ELSE [i \in 1..Len(a[Head(vs)]) |-> <<Head(vs), a[Head(vs)][i]>>]
            \o initial_queue(Tail(vs), a)

NoRevise == [X |-> None, Y |-> None, domX |-> {}, domY |-> {}, removed |-> {}]

\* the solver called directly, without a file read by parse_input
NoParse == [text |-> <<>>, pos |-> 0, has_k |-> FALSE, k |-> None, edges |-> {},
            vertices |-> {}, status |-> "none"]

NoPrev == [outcome |-> "pending", solution |-> EmptyMap, reordered |-> FALSE]

Init ==
    /\ k \in (0 - NegK)..MaxK
    /\ variables \in SUBSET (1..MaxVar)
    /\ Cardinality(variables) + k <= MaxSize
    /\ \E E \in SUBSET EdgesOver(variables) :
          \E es \in Listings(E) : adj = parse_adj(variables, es)
    /\ iterOrder \in Perms(initial_domain(k))
    /\ domains = [v \in variables |-> initial_domain(k)]
    /\ assignment = EmptyMap
    /\ trail = <<>>
    /\ queue = initial_queue(sorted(variables), adj)
    /\ stack = <<>>
    /\ pc = "ac3_initial"
    /\ outcome = "pending"
    /\ solution = EmptyMap
    /\ ac3Start = domains
    /\ lastRevise = NoRevise
    /\ failedBy = "none"
    /\ searchStart = domains
    /\ parse = NoParse
    /\ run = 1
    /\ prev = NoPrev

(***************************************************************************)
(* ac3: one iteration of the while loop, lines 86-93                       *)
(***************************************************************************)
ac3_revise ==
    /\ pc \in {"ac3_initial", "ac3_trial"}
    /\ queue # <<>>
    /\ LET Xi == Head(queue)[1]
           Xj == Head(queue)[2]
           to_remove == revise(list(domains[Xi]), domains[Xj])
           revised == to_remove # <<>>
           doms == remove_all(domains, Xi, to_remove)
       IN /\ domains' = doms
          /\ trail' = trail_append(trail, Xi, to_remove)
          /\ lastRevise' = [X |-> Xi, Y |-> Xj, domX |-> domains[Xi],
                            domY |-> domains[Xj], removed |-> domains[Xi] \ doms[Xi]]
          /\ IF revised /\ doms[Xi] = {}
             THEN \* return False: line 176-178 at the top, line 149 in a trial
                  /\ queue' = Tail(queue)
                  /\ pc' = IF pc = "ac3_initial" THEN "done" ELSE "rollback"
                  /\ outcome' = IF pc = "ac3_initial" THEN "failure" ELSE outcome
                  /\ failedBy' = IF pc = "ac3_initial" THEN failedBy ELSE "ac3"
             ELSE /\ queue' = IF revised THEN reenqueue(Tail(queue), Xi, Xj)
                                          ELSE Tail(queue)
                  /\ UNCHANGED <<pc, outcome, failedBy>>
    /\ UNCHANGED <<input, iterOrder, searchStart, assignment, stack, solution, ac3Start, run, prev>>

\* the initial ac3 returned True: lines 177-184
ac3_initial_return ==
    /\ pc = "ac3_initial"
    /\ queue = <<>>
    /\ IF empty_found(domains)
       THEN pc' = "done" /\ outcome' = "failure"
       ELSE pc' = "backtrack" /\ UNCHANGED outcome
    /\ searchStart' = domains
    /\ UNCHANGED <<input, iterOrder, domains, assignment, trail, queue, stack,
                   solution, ac3Start, lastRevise, failedBy, run, prev>>

\* the ac3 of a trial returned True: lines 149-152
ac3_trial_return ==
    /\ pc = "ac3_trial"
    /\ queue = <<>>
    /\ pc' = IF empty_found(domains) THEN "rollback" ELSE "backtrack"
    /\ failedBy' = IF empty_found(domains) THEN "empty_found" ELSE failedBy
    /\ UNCHANGED <<input, iterOrder, searchStart, domains, assignment, trail, queue, stack,
                   outcome, solution, ac3Start, lastRevise, run, prev>>

(***************************************************************************)
(* backtrack                                                               *)
(***************************************************************************)
\* "if assignment and len(assignment) == len(domains)"
complete_nonempty(asg, doms) ==
    /\ DOMAIN asg # {}
    /\ Cardinality(DOMAIN asg) = Cardinality(DOMAIN doms)

\* len(assignment) >= len(domains) - 1
complete_one_short(asg, doms) ==
    Cardinality(DOMAIN asg) + 1 >= Cardinality(DOMAIN doms)

\* len(assignment) == len(domains)
complete(asg, doms) == Cardinality(DOMAIN asg) = Cardinality(DOMAIN doms)

\* the loop of line 137 never advancing
remaining_stuck(values) == values

\* the values the for loop of line 137 still has to try after this one
remaining(values) == Tail(values)

\* where a call of backtrack whose callers are the frames of stk continues
\* when it returns False: the top-level call makes solve_graph_coloring
\* return None (line 185), any other one resumes its caller at line 156
pc_return_false(stk) == IF stk = <<>> THEN "done" ELSE "rollback"

outcome_return_false(stk) == IF stk = <<>> THEN "failure" ELSE outcome

failedBy_return_false(stk) == IF stk = <<>> THEN failedBy ELSE "recursion"

\* the frame of a call that enters its loop: var and the ordered values;
\* order and the entry fields are history: the complete list of values and
\* the domains, assignment and trail the call was entered with
new_frame(var) ==
    LET ordered == order_domain_values(var, list(domains[var]), domains, assignment)
    IN [var |-> var,
        values |-> ordered,
        value |-> None,
        trail_snapshot |-> Len(trail),
        domAtMark |-> domains,
        order |-> ordered,
        entryDomains |-> domains,
        entryAssignment |-> assignment,
        entryTrail |-> trail]

\* entry of backtrack up to the evaluation of order_domain_values, lines 130-137
backtrack_enter ==
    /\ pc = "backtrack"
    /\ LET var == select_unassigned_variable(domains, assignment)
           done == complete(assignment, domains)
       IN /\ stack' = IF done THEN <<>>               \* return True to every caller
                      ELSE IF var = None THEN stack   \* return False, line 135
                      ELSE Append(stack, new_frame(var))
          /\ pc' = IF done THEN "assemble"
                   ELSE IF var = None THEN pc_return_false(stack)
                   ELSE "trial"
          /\ outcome' = IF ~done /\ var = None THEN outcome_return_false(stack)
                        ELSE outcome
          /\ failedBy' = IF ~done /\ var = None THEN failedBy_return_false(stack)
                         ELSE failedBy
    /\ UNCHANGED <<input, iterOrder, searchStart, domains, assignment, trail, queue,
                   solution, ac3Start, lastRevise, run, prev>>

Top == stack[Len(stack)]

\* "if v > value" in place of "if v != value"
other_values_above(listVar, value) ==
    LET above(v) == v > value IN SelectSeq(listVar, above)

\* [v for v in list(domains[var]) if v != value], line 139
other_values(listVar, value) ==
    LET other(v) == v # value IN SelectSeq(listVar, other)

\* the queue seeded from every other variable instead of the neighbours
trial_queue_all(var) ==
    [i \in 1..Len(sorted(variables \ {var})) |->
        <<sorted(variables \ {var})[i], var>>]

\* for nb in adj.get(var, []): queue.append((nb, var)), lines 145-147
trial_queue(var) == [i \in 1..Len(adj[var]) |-> <<adj[var][i], var>>]

\* the tentative assignment left in place
del_assignment_kept(asg, var) == asg

\* del assignment[var], line 160
del_assignment(asg, var) == [v \in (DOMAIN asg) \ {var} |-> asg[v]]

\* one pass of the loop body up to the call of ac3, lines 137-148
trial_value ==
    /\ pc = "trial"
    /\ Top.values # <<>>
    /\ LET var == Top.var
           value == Head(Top.values)
           others == other_values(list(domains[var]), value)
           doms == remove_all(domains, var, others)
       IN /\ stack' = [stack EXCEPT ![Len(stack)] =
                          [Top EXCEPT !.values = remaining(Top.values),
                                      !.value = value,
                                      !.trail_snapshot = Len(trail),
                                      !.domAtMark = domains]]
          /\ domains' = doms
          /\ trail' = trail_append(trail, var, others)
          /\ assignment' = [v \in (DOMAIN assignment) \cup {var} |->
                               IF v = var THEN value ELSE assignment[v]]
          /\ queue' = trial_queue(var)
          /\ ac3Start' = doms
    /\ pc' = "ac3_trial"
    /\ UNCHANGED <<input, iterOrder, searchStart, outcome, solution, lastRevise, failedBy, run, prev>>

\* the loop of line 137 is exhausted: return False, line 162
backtrack_exhausted ==
    /\ pc = "trial"
    /\ Top.values = <<>>
    /\ LET callers == SubSeq(stack, 1, Len(stack) - 1)
       IN /\ stack' = callers
          /\ pc' = pc_return_false(callers)
          /\ outcome' = outcome_return_false(callers)
          /\ failedBy' = failedBy_return_false(callers)
    /\ UNCHANGED <<input, iterOrder, searchStart, domains, assignment, trail, queue,
                   solution, ac3Start, lastRevise, run, prev>>

\* the guard of line 158 inverted: the value is added only when present
restore_guard_inverted(doms, entry) ==
    IF entry[2] \in doms[entry[1]]
    THEN [doms EXCEPT ![entry[1]] = @ \cup {entry[2]}]
    ELSE doms

\* v, val = trail.pop(); if val not in domains[v]: domains[v].add(val)
restore(doms, entry) == [doms EXCEPT ![entry[1]] = @ \cup {entry[2]}]

\* one iteration of the while loop of lines 156-159
rollback_pop ==
    /\ pc = "rollback"
    /\ Len(trail) > Top.trail_snapshot
    /\ domains' = restore(domains, trail[Len(trail)])
    /\ trail' = SubSeq(trail, 1, Len(trail) - 1)
    /\ UNCHANGED <<input, iterOrder, searchStart, assignment, queue, stack, pc, outcome,
                   solution, ac3Start, lastRevise, failedBy, run, prev>>

\* the while loop ends; del assignment[var], line 160
rollback_done ==
    /\ pc = "rollback"
    /\ Len(trail) <= Top.trail_snapshot
    /\ assignment' = del_assignment(assignment, Top.var)
    /\ pc' = "trial"
    /\ UNCHANGED <<input, iterOrder, searchStart, domains, trail, queue, stack, outcome,
                   solution, ac3Start, lastRevise, failedBy, run, prev>>

(***************************************************************************)
(* Result assembly, lines 188-194                                          *)
(***************************************************************************)
\* some variable is neither assigned nor has a value left (line 193)
cannot_fill(asg, doms) == \E v \in DOMAIN doms : v \notin DOMAIN asg /\ doms[v] = {}

\* assignment[v] = min(domains[v]) for every v not in assignment
fill(asg, doms) ==
    [v \in DOMAIN doms |-> IF v \in DOMAIN asg THEN asg[v] ELSE MinOf(doms[v])]

assemble ==
    /\ pc = "assemble"
    /\ IF cannot_fill(assignment, domains)
       THEN outcome' = "failure" /\ UNCHANGED <<assignment, solution>>
       ELSE /\ outcome' = "solution"
            /\ assignment' = fill(assignment, domains)
            /\ solution' = fill(assignment, domains)
    /\ pc' = "done"
    /\ UNCHANGED <<input, iterOrder, searchStart, domains, trail, queue, stack,
                   ac3Start, lastRevise, failedBy, run, prev>>

Next ==
    \/ ac3_revise
    \/ ac3_initial_return
    \/ ac3_trial_return
    \/ backtrack_enter
    \/ trial_value
    \/ backtrack_exhausted
    \/ rollback_pop
    \/ rollback_done
    \/ assemble

Spec == Init /\ [][Next]_vars

\* the solve is one synchronous call: it keeps running until it returns
SpecLive == Spec /\ WF_vars(Next)

(***************************************************************************)
(* A second solve of the same input (main, lines 225-232, run again)       *)
(***************************************************************************)
solve_again ==
    /\ pc = "done"
    /\ run = 1
    /\ run' = 2
    /\ \E es \in Listings(EdgesOf(adj)) : adj' = parse_adj(variables, es)
    /\ iterOrder' \in Perms(initial_domain(k))
    /\ prev' = [outcome |-> outcome, solution |-> solution,
                reordered |-> iterOrder' # iterOrder]
    /\ domains' = [v \in variables |-> initial_domain(k)]
    /\ assignment' = EmptyMap
    /\ trail' = <<>>
    /\ queue' = initial_queue(sorted(variables), adj')
    /\ stack' = <<>>
    /\ pc' = "ac3_initial"
    /\ outcome' = "pending"
    /\ solution' = EmptyMap
    /\ ac3Start' = domains'
    /\ lastRevise' = NoRevise
    /\ failedBy' = "none"
    /\ searchStart' = domains'
    /\ UNCHANGED <<k, variables, parse>>

NextRepeat == Next \/ solve_again

SpecRepeat == Init /\ [][NextRepeat]_vars

(***************************************************************************)
(* parse_input and main: a file read line by line, then the solver called  *)
(***************************************************************************)
\* what a stripped line can be to the loop of lines 11-37: blank or a
\* comment, "colors=" with or without an integer after it, two integers
\* around one comma, or anything else
FileLines(names) ==
    {[kind |-> "blank", u |-> None, v |-> None]}
    \cup {[kind |-> "other", u |-> None, v |-> None]}
    \cup {[kind |-> "colors_bad", u |-> None, v |-> None]}
    \cup {[kind |-> "colors", u |-> kk, v |-> None] : kk \in {1, MaxK}}
    \cup {[kind |-> "edge", u |-> u, v |-> v] : u, v \in names}

\* the files of at most len lines
Files(len, names) == UNION {[1..n -> FileLines(names)] : n \in 0..len}

\* the self-loop test skipped
is_self_loop_never(u, v) == FALSE

\* if u == v, line 31
is_self_loop(u, v) == u = v

\* a, b = (u, v) if u <= v else (v, u), line 34
normalise(u, v) == IF u <= v THEN <<u, v>> ELSE <<v, u>>

InitParse ==
    /\ parse \in {[text |-> f, pos |-> 1, has_k |-> FALSE, k |-> None, edges |-> {},
                    vertices |-> {}, status |-> "reading"] :
                        f \in Files(MaxLines, 1..ParseVar)}
    /\ pc = "parse"
    /\ k = None
    /\ variables = {}
    /\ adj = EmptyMap
    /\ iterOrder = <<>>
    /\ domains = EmptyMap
    /\ assignment = EmptyMap
    /\ trail = <<>>
    /\ queue = <<>>
    /\ stack = <<>>
    /\ outcome = "pending"
    /\ solution = EmptyMap
    /\ ac3Start = EmptyMap
    /\ lastRevise = NoRevise
    /\ failedBy = "none"
    /\ searchStart = EmptyMap
    /\ run = 1
    /\ prev = NoPrev

\* one iteration of "for raw in f", lines 11-37
parse_line ==
    /\ pc = "parse"
    /\ parse.pos <= Len(parse.text)
    /\ LET line == parse.text[parse.pos]
           e == normalise(line.u, line.v)
       IN IF line.kind \in {"blank", "other"}
          THEN parse' = [parse EXCEPT !.pos = @ + 1] /\ UNCHANGED <<pc, outcome>>
          ELSE IF line.kind = "colors"
          THEN /\ parse' = [parse EXCEPT !.pos = @ + 1, !.has_k = TRUE, !.k = line.u]
               /\ UNCHANGED <<pc, outcome>>
          ELSE IF line.kind = "colors_bad" \/ is_self_loop(line.u, line.v)
          THEN /\ parse' = [parse EXCEPT !.status = "failure"]
               /\ pc' = "exit"
               /\ outcome' = "failure"
          ELSE /\ parse' = [parse EXCEPT !.pos = @ + 1,
                                         !.edges = @ \cup {e},
                                         !.vertices = @ \cup {e[1], e[2]}]
               /\ UNCHANGED <<pc, outcome>>
    /\ UNCHANGED <<k, variables, adj, iterOrder, domains, assignment, trail, queue,
                   stack, solution, ac3Start, lastRevise, failedBy, searchStart,
                   run, prev>>

\* the end of the file with no "colors=" line read, lines 42-44
parse_no_k ==
    /\ pc = "parse"
    /\ parse.pos > Len(parse.text)
    /\ ~parse.has_k
    /\ parse' = [parse EXCEPT !.status = "failure"]
    /\ pc' = "exit"
    /\ outcome' = "failure"
    /\ UNCHANGED <<k, variables, adj, iterOrder, domains, assignment, trail, queue,
                   stack, solution, ac3Start, lastRevise, failedBy, searchStart,
                   run, prev>>

\* the end of the file: lines 46-55 build the adjacency and main either
\* prints the empty solution (lines 228-230) or calls the solver (line 232)
parse_return ==
    /\ pc = "parse"
    /\ parse.pos > Len(parse.text)
    /\ parse.has_k
    /\ k' = parse.k
    /\ variables' = parse.vertices
    /\ \E es \in Listings(parse.edges) : adj' = parse_adj(parse.vertices, es)
    /\ iterOrder' \in Perms(initial_domain(k'))
    /\ parse' = [parse EXCEPT !.status = IF variables' = {} THEN "empty" ELSE "solving"]
    /\ pc' = IF variables' = {} THEN "exit" ELSE "ac3_initial"
    /\ outcome' = IF variables' = {} THEN "solution" ELSE "pending"
    /\ domains' = [v \in variables' |-> initial_domain(k')]
    /\ assignment' = EmptyMap
    /\ trail' = <<>>
    /\ queue' = initial_queue(sorted(variables'), adj')
    /\ stack' = <<>>
    /\ solution' = EmptyMap
    /\ ac3Start' = domains'
    /\ lastRevise' = NoRevise
    /\ failedBy' = "none"
    /\ searchStart' = domains'
    /\ UNCHANGED <<run, prev>>

NextParse == parse_line \/ parse_no_k \/ parse_return

SpecParse == InitParse /\ [][NextParse]_vars

(***************************************************************************)
(* A graph of two connected components, then one of them solved alone      *)
(***************************************************************************)
\* every proper part of V has an edge of E leaving it
Connected(V, E) ==
    \A S \in (SUBSET V) \ {{}, V} :
        \E e \in E : (e[1] \in S) # (e[2] \in S)

RECURSIVE Reach(_, _)
\* the variables joined to one of S by a path of the adjacency a
Reach(S, a) ==
    LET next == S \cup UNION {Range(a[u]) : u \in S}
    IN IF next = S THEN S ELSE Reach(next, a)

\* the vertex sets of the connected components of the adjacency a
Components(a) == {Reach({v}, a) : v \in DOMAIN a}

\* the edge sets that make V one connected component
ConnectedOver(V) == {E \in SUBSET EdgesOver(V) : Connected(V, E)}

\* the ways to split 1..n, n <= 2 * size, in two parts of at most size
\* vertices, the first being the part of vertex 1
Splits(size) ==
    UNION {{[V |-> 1..n, A |-> A, B |-> (1..n) \ A] :
               A \in {S \in SUBSET (1..n) : /\ 1 \in S
                                            /\ Cardinality(S) <= size
                                            /\ S # 1..n
                                            /\ n - Cardinality(S) <= size}} :
           n \in 2..(2 * size)}

\* the graphs made of two connected components of at most size vertices
TwoComponentGraphs(size) ==
    UNION {{[V |-> s.V, E |-> EA \cup EB] :
               EA \in ConnectedOver(s.A), EB \in ConnectedOver(s.B)} : s \in Splits(size)}

InitComponents ==
    /\ k \in 1..MaxK
    /\ \E g \in TwoComponentGraphs(CompSize) :
          /\ variables = g.V
          /\ adj = parse_adj(g.V, sortPairs(g.E))
    /\ iterOrder \in Perms(initial_domain(k))
    /\ domains = [v \in variables |-> initial_domain(k)]
    /\ assignment = EmptyMap
    /\ trail = <<>>
    /\ queue = initial_queue(sorted(variables), adj)
    /\ stack = <<>>
    /\ pc = "ac3_initial"
    /\ outcome = "pending"
    /\ solution = EmptyMap
    /\ ac3Start = domains
    /\ lastRevise = NoRevise
    /\ failedBy = "none"
    /\ searchStart = domains
    /\ parse = NoParse
    /\ run = 1
    /\ prev = NoPrev

\* the edges of one component given as a file of their own with the same
\* "colors=" line: main runs again on the component alone
solve_component ==
    /\ pc = "done"
    /\ run = 1
    /\ run' = 2
    /\ variables' \in Components(adj)
    /\ adj' = [v \in variables' |-> adj[v]]
    /\ iterOrder' \in Perms(initial_domain(k))
    /\ prev' = [outcome |-> outcome, solution |-> solution,
                reordered |-> iterOrder' # iterOrder]
    /\ domains' = [v \in variables' |-> initial_domain(k)]
    /\ assignment' = EmptyMap
    /\ trail' = <<>>
    /\ queue' = initial_queue(sorted(variables'), adj')
    /\ stack' = <<>>
    /\ pc' = "ac3_initial"
    /\ outcome' = "pending"
    /\ solution' = EmptyMap
    /\ ac3Start' = domains'
    /\ lastRevise' = NoRevise
    /\ failedBy' = "none"
    /\ searchStart' = domains'
    /\ UNCHANGED <<k, parse>>

NextComponents == Next \/ solve_component

SpecComponents == InitComponents /\ [][NextComponents]_vars

(***************************************************************************)
(* Properties of the outcome of solve_graph_coloring                       *)
(***************************************************************************)
Edges == EdgesOf(adj)

Returned == pc = "done" /\ outcome = "solution"

Failed == pc = "done" /\ outcome = "failure"

Proper(f) == \A e \in Edges : f[e[1]] # f[e[2]]

Colourable == \E f \in [variables -> 1..k] : Proper(f)

\* C1 (validity): whenever solve_graph_coloring returns a mapping, the two
\* ends of every edge of the adjacency have different colours in it.
Validity == Returned => Proper(solution)

\* a mapping is returned for a graph with at least four edges
ValidityWitness == Returned /\ Cardinality(Edges) >= 4

\* C2 (search completeness): the solve ends in failure exactly when the
\* graph has no proper k-colouring, and in a mapping whenever it has one.
SearchComplete == pc = "done" => (outcome = "failure" <=> ~Colourable)

\* the triangle on 1, 2, 3 with k = 2 ends in failure
SearchCompleteWitness ==
    /\ Failed
    /\ k = 2
    /\ Edges = {<<1, 2>>, <<1, 3>>, <<2, 3>>}

\* C3 (completeness of the mapping): a returned mapping has exactly the
\* input variables as keys and every value is a colour of 1..k.
MappingComplete ==
    Returned => /\ DOMAIN solution = variables
                /\ \A v \in variables : solution[v] \in 1..k

\* a mapping over every identifier is returned
MappingCompleteWitness == Returned /\ Cardinality(variables) = MaxVar

\* C4 (trail soundness): when the rollback loop of a trial has popped the
\* trail back to trail_snapshot, every domain is what it was when
\* trail_snapshot was recorded.
RolledBack == pc = "rollback" /\ Len(trail) <= Top.trail_snapshot

TrailSound ==
    RolledBack => /\ Len(trail) = Top.trail_snapshot
                  /\ domains = Top.domAtMark

\* a trial whose recursive call failed has been rolled back, after forcing
\* and propagation had removed values
TrailSoundWitness ==
    /\ RolledBack
    /\ failedBy = "recursion"
    /\ Cardinality(Top.domAtMark[Top.var]) > 1
    /\ \E v \in variables \ {Top.var} : Top.domAtMark[v] # ac3Start[v]

\* C5 (determinism): a second solve of the same k and the same edge set
\* ends in the outcome of the first (the same mapping, or failure both
\* times), whatever the iteration order of the colour sets and the order
\* in which the edges were read.
Deterministic ==
    (run = 2 /\ pc = "done") =>
        /\ outcome = prev.outcome
        /\ solution = prev.solution

\* two solves that iterate the colour sets in different orders both
\* returned a mapping for a graph with edges
DeterministicWitness ==
    /\ run = 2
    /\ Returned
    /\ prev.reordered
    /\ Cardinality(Edges) >= 3

\* C6 (termination): every solve reaches its terminal outcome, so every
\* run of ac3 in it ends after finitely many revisions.
Terminates == <>(pc = "done")

\* a solve that had to exhaust nested trials has ended
TerminatesWitness ==
    /\ Failed
    /\ k = 3
    /\ Cardinality(Edges) = 6

(***************************************************************************)
(* Properties of ac3 and revise                                            *)
(***************************************************************************)
InAc3 == pc \in {"ac3_initial", "ac3_trial"}

\* C7 (monotonic propagation): no step of a run of ac3 adds a value to a
\* domain; after each step every domain is a subset of what it was before
\* the step and of what it was when the run started.
MonotonicPropagation ==
    [][(InAc3 /\ queue # <<>>) =>
          \A v \in variables : /\ domains'[v] \subseteq domains[v]
                                /\ domains'[v] \subseteq ac3Start[v]]_vars

\* in the middle of a run of ac3 some domain has already shrunk
MonotonicPropagationWitness ==
    /\ InAc3
    /\ queue # <<>>
    /\ \E v \in variables : domains[v] # ac3Start[v]

\* the values of domX that have no y in domY with y # x
NoSupport(domX, domY) == {x \in domX : ~\E y \in domY : y # x}

\* C8 (singleton check = general revise): every call revise(X, Y) removes
\* from domain(X) exactly the values without a support in domain(Y).
ReviseIsGeneral ==
    lastRevise.X # None =>
        lastRevise.removed = NoSupport(lastRevise.domX, lastRevise.domY)

\* a call of revise removed a value from a domain of several values
ReviseIsGeneralWitness ==
    /\ lastRevise.removed # {}
    /\ Cardinality(lastRevise.domX) >= 2

(***************************************************************************)
(* Boundary inputs                                                         *)
(***************************************************************************)
\* C9 (empty variable set): with no variables the solve returns the empty
\* mapping, for positive, zero and negative k alike.
EmptyVariables ==
    (pc = "done" /\ variables = {}) =>
        /\ outcome = "solution"
        /\ solution = EmptyMap

\* the empty mapping is returned for a negative k
EmptyVariablesWitness == Returned /\ variables = {} /\ k < 0

\* C10 as stated: with k <= 0 the solve fails when the graph has an edge
\* and returns a mapping when it has none.
NonPositiveKByEdges ==
    (pc = "done" /\ k <= 0) =>
        /\ Edges # {} => outcome = "failure"
        /\ Edges = {} => outcome = "solution"

\* C10 (amended): with k <= 0 the solve fails when the variable set is not
\* empty (so whenever the graph has an edge) and returns the empty mapping
\* when the variable set is empty.
NonPositiveKByVariables ==
    (pc = "done" /\ k <= 0) =>
        /\ variables # {} => outcome = "failure"
        /\ variables = {} => (outcome = "solution" /\ solution = EmptyMap)

\* k <= 0, variables without any edge: the solve failed
NonPositiveKWitness ==
    /\ Failed
    /\ k <= 0
    /\ variables # {}
    /\ Edges = {}

(***************************************************************************)
(* The solver on every graph over one more vertex, with the most colours:  *)
(* the smallest inputs on which the counts of order_domain_values differ   *)
(***************************************************************************)
InitWide ==
    /\ k = MaxK
    /\ variables = 1..(MaxVar + 1)
    /\ \E E \in SUBSET EdgesOver(variables) : adj = parse_adj(variables, sortPairs(E))
    /\ iterOrder \in Perms(initial_domain(k))
    /\ domains = [v \in variables |-> initial_domain(k)]
    /\ assignment = EmptyMap
    /\ trail = <<>>
    /\ queue = initial_queue(sorted(variables), adj)
    /\ stack = <<>>
    /\ pc = "ac3_initial"
    /\ outcome = "pending"
    /\ solution = EmptyMap
    /\ ac3Start = domains
    /\ lastRevise = NoRevise
    /\ failedBy = "none"
    /\ searchStart = domains
    /\ parse = NoParse
    /\ run = 1
    /\ prev = NoPrev

SpecWide == InitWide /\ [][Next]_vars

(***************************************************************************)
(* Properties of the search                                                *)
(***************************************************************************)
\* C12 (assignment complete at success): whenever backtrack has returned
\* True the assignment holds an entry for every variable, so the result is
\* assembled without reading any domain and without returning None.
AssignmentComplete ==
    pc = "assemble" =>
        /\ DOMAIN assignment = variables
        /\ ~cannot_fill(assignment, domains)
        /\ fill(assignment, domains) = assignment

\* backtrack returned True after assigning the variables of a graph with
\* edges, one value at a time
AssignmentCompleteWitness ==
    /\ pc = "assemble"
    /\ Cardinality(variables) >= 3
    /\ Edges # {}
    /\ trail # <<>>

\* C14 (arc-consistency fixpoint): every time backtrack is entered, for
\* every edge and in both directions, a neighbour whose domain is the
\* singleton {x} leaves no x in the domain at the other end.
ArcConsistentAtEntry ==
    pc = "backtrack" =>
        \A u \in variables : \A i \in 1..Len(adj[u]) :
            LET v == adj[u][i]
            IN Cardinality(domains[v]) = 1 => domains[u] \cap domains[v] = {}

\* backtrack is entered after a trial whose propagation made the domain of
\* an unassigned variable a singleton two edges away from the one assigned
ArcConsistentAtEntryWitness ==
    /\ pc = "backtrack"
    /\ stack # <<>>
    /\ \E v \in variables \ DOMAIN assignment :
          /\ Cardinality(domains[v]) = 1
          /\ Top.var \notin Range(adj[v])
          /\ Cardinality(Top.entryDomains[v]) > 1

\* the values of v on the trail, and how many times the pair is on it
trailed(v) == {trail[i][2] : i \in {j \in 1..Len(trail) : trail[j][1] = v}}

occurrences(v, x) == Cardinality({i \in 1..Len(trail) : trail[i] = <<v, x>>})

\* C15 (trail/domain partition): in every reachable state and for every
\* variable, no pair is on the trail twice, no trailed value is in the
\* domain, and the domain with the trailed values is the full range 1..k.
TrailDomainPartition ==
    \A v \in variables :
        /\ \A x \in trailed(v) : occurrences(v, x) = 1
        /\ trailed(v) \cap domains[v] = {}
        /\ trailed(v) \cup domains[v] = 1..k

\* a rollback under way with values of two variables still on the trail
TrailDomainPartitionWitness ==
    /\ pc = "rollback"
    /\ \E u, v \in variables :
          /\ u # v
          /\ Cardinality(trailed(u)) >= 2
          /\ trailed(v) # {}
          /\ domains[v] # {}

\* a call of backtrack that has tried every value and is about to return
\* False at line 162
ReturningFalse == pc = "trial" /\ Top.values = <<>>

\* C16 (failure leaves no trace): whenever a call of backtrack returns
\* False the domains, the assignment and the trail are what they were when
\* that call was entered; when it is the top-level call, the solver fails
\* with an empty assignment and the domains the initial ac3 left.
FailureLeavesNoTrace ==
    [][ReturningFalse =>
          /\ domains = Top.entryDomains
          /\ assignment = Top.entryAssignment
          /\ trail = Top.entryTrail
          /\ Len(stack) = 1 =>
                /\ pc' = "done" /\ outcome' = "failure"
                /\ assignment' = EmptyMap
                /\ domains' = searchStart]_vars

\* the top-level call returns False after trying and undoing two values
\* on a graph with edges
FailureLeavesNoTraceWitness ==
    /\ ReturningFalse
    /\ Len(stack) = 1
    /\ Len(Top.order) >= 2
    /\ Edges # {}

\* C17 (assigned variables stay pinned): every time backtrack is entered
\* no domain is empty and the domain of every assigned variable is exactly
\* the singleton of its assigned value.
AssignedStayPinned ==
    pc = "backtrack" =>
        /\ ~empty_found(domains)
        /\ \A v \in DOMAIN assignment : domains[v] = {assignment[v]}

\* backtrack is entered with a neighbour of the last assigned variable
\* assigned earlier, its arc having been revised during the propagation
AssignedStayPinnedWitness ==
    /\ pc = "backtrack"
    /\ Len(stack) >= 2
    /\ stack[1].var \in Range(adj[Top.var])
    /\ Cardinality(DOMAIN assignment) >= 2

\* C18 (MRV selection): the variable every call of backtrack chose was
\* unassigned when the call was entered, no unassigned variable had a
\* smaller domain, and none with a domain of the same size had a smaller
\* identifier.
MRVSelection ==
    \A i \in 1..Len(stack) :
        LET f == stack[i]
            unassigned == variables \ DOMAIN f.entryAssignment
            size(v) == Cardinality(f.entryDomains[v])
        IN /\ f.var \in unassigned
           /\ \A u \in unassigned :
                 \/ size(u) > size(f.var)
                 \/ size(u) = size(f.var) /\ f.var <= u

\* a call chose a variable although one with a smaller identifier and a
\* larger domain was unassigned
MRVSelectionWitness ==
    \E i \in 1..Len(stack) : \E u \in variables :
        /\ u \notin DOMAIN stack[i].entryAssignment
        /\ u < stack[i].var
        /\ Cardinality(stack[i].entryDomains[u]) >
               Cardinality(stack[i].entryDomains[stack[i].var])

\* C19 (LCV ordering): the values a call of backtrack tries are the values
\* of the domain of its variable at entry, each once, ascending by the
\* number of unassigned neighbours whose domain holds the value and then by
\* value; the list is computed once, the trials follow it, and every trial
\* starts from the domains the call was entered with.
LCVOrdering ==
    \A i \in 1..Len(stack) :
        LET f == stack[i]
            count(x) == Cardinality({nb \in Range(adj[f.var]) :
                                        /\ nb \notin DOMAIN f.entryAssignment
                                        /\ x \in f.entryDomains[nb]})
            n == Len(f.order)
        IN /\ Range(f.order) = f.entryDomains[f.var]
           /\ n = Cardinality(f.entryDomains[f.var])
           /\ \A a, b \in 1..n :
                 a < b => PairLess(<<count(f.order[a]), f.order[a]>>,
                                   <<count(f.order[b]), f.order[b]>>)
           /\ \E tried \in 0..n :
                 /\ f.values = SubSeq(f.order, tried + 1, n)
                 /\ f.value = IF tried = 0 THEN None ELSE f.order[tried]
           /\ f.value # None => f.domAtMark = f.entryDomains

\* a call trying the first value of a list that puts a larger value before
\* a smaller one, the smaller one being in the domain of more neighbours
LCVOrderingWitness ==
    \E i \in 1..Len(stack) :
        /\ Len(stack[i].order) >= 2
        /\ stack[i].order[1] > stack[i].order[2]
        /\ stack[i].value = stack[i].order[1]

\* C20 (AC-3 fail-fast): a run of ac3 returns False at the revision that
\* takes the last value of a domain and at no other step, leaving the rest
\* of the queue unprocessed, with every removal of the run, the last one
\* included, on the trail; a run that returns True has emptied no domain.
Ac3FailFast ==
    [][InAc3 =>
          IF queue = <<>>
          THEN \A v \in variables : domains[v] = {} => ac3Start[v] = {}
          ELSE LET Xi == Head(queue)[1]
                   returnsFalse == pc' \in {"done", "rollback"}
               IN /\ returnsFalse <=> (domains[Xi] # {} /\ domains'[Xi] = {})
                  /\ returnsFalse =>
                        /\ queue' = Tail(queue)
                        /\ \A v \in variables : \A x \in ac3Start[v] \ domains'[v] :
                              \E j \in 1..Len(trail') : trail'[j] = <<v, x>>]_vars

\* a run of ac3 has returned False with arcs left on the queue, after
\* removals from two variables
Ac3FailFastWitness ==
    /\ pc = "rollback"
    /\ failedBy = "ac3"
    /\ queue # <<>>
    /\ domains[lastRevise.X] = {}
    /\ \E v \in variables \ {lastRevise.X} : ac3Start[v] # domains[v]

(***************************************************************************)
(* Properties of parse_input                                               *)
(***************************************************************************)
SelfLoopLine ==
    \E i \in 1..Len(parse.text) :
        parse.text[i].kind = "edge" /\ parse.text[i].u = parse.text[i].v

Ascending(s) == \A i, j \in 1..Len(s) : i < j => s[i] < s[j]

\* C13 (self-loops never reach the core): on a file with an edge line whose
\* two ends are equal parse_input ends with 'failure' and the solver is never
\* called; on any other file the adjacency the solver is called with is
\* symmetric, each list ascending without repetition, and no variable is in
\* its own list.
SelfLoopsRejected ==
    /\ SelfLoopLine =>
          /\ parse.status \in {"reading", "failure"}
          /\ pc \in {"parse", "exit"}
          /\ pc = "exit" => outcome = "failure"
    /\ parse.status = "solving" =>
          \A u \in variables :
              /\ Ascending(adj[u])
              /\ u \notin Range(adj[u])
              /\ \A v \in Range(adj[u]) : v \in variables /\ u \in Range(adj[v])

\* parse_input has stopped at a self-loop that follows a "colors=" line and
\* an edge
SelfLoopsRejectedWitness ==
    /\ pc = "exit"
    /\ parse.status = "failure"
    /\ parse.has_k
    /\ parse.edges # {}
    /\ parse.text[parse.pos].kind = "edge"
    /\ parse.text[parse.pos].u = parse.text[parse.pos].v

(***************************************************************************)
(* Properties of graphs of two components                                  *)
(***************************************************************************)
\* two triangles without a common vertex
TwoTriangles ==
    /\ Cardinality(variables) = 6
    /\ \A v \in variables :
          /\ Len(adj[v]) = 2
          /\ adj[v][2] \in Range(adj[adj[v][1]])

\* C11 (component independence): on a graph of two components without a
\* common vertex, two triangles with three colours get a mapping, and
\* whenever the graph gets a mapping each component solved alone with the
\* same k gets a mapping too, with the colours it has in that of the graph.
ComponentIndependence ==
    /\ (run = 1 /\ pc = "done" /\ TwoTriangles /\ k >= 3) => outcome = "solution"
    /\ (run = 2 /\ pc = "done" /\ prev.outcome = "solution") =>
          /\ outcome = "solution"
          /\ \A v \in variables : solution[v] = prev.solution[v]

\* one of two triangles has been solved alone with three colours after the
\* two were solved together
ComponentIndependenceWitness ==
    /\ run = 2
    /\ pc = "done"
    /\ outcome = "solution"
    /\ k = 3
    /\ Cardinality(variables) = 3
    /\ \A v \in variables : Len(adj[v]) = 2
    /\ Cardinality(DOMAIN prev.solution) = 6
    /\ \A v \in (DOMAIN prev.solution) \ variables :
          Cardinality({prev.solution[u] : u \in (DOMAIN prev.solution) \ variables}) = 3

====
